---- MODULE Spec2Model ----
(***************************************************************************)
(* Health-monitoring engine of sshappy: src/src/services/MonitoringService *)
(* (the registry of HealthCheckConfigs, the per-target status and history  *)
(* kept in AsyncStorage, the uptime calculation, the transition            *)
(* notifications and the background task that runs one monitoring pass),   *)
(* with the connectivity check of src/src/services/SSHService.ts.          *)
(***************************************************************************)
EXTENDS Integers, Sequences, FiniteSets, TLC

VARIABLES
  healthCheckConfigs, \* the in-memory Map serverId -> config, in insertion order
  statusStore,        \* AsyncStorage '@monitoring_status_<id>': a status, or null
  historyStore,       \* AsyncStorage '@monitoring_history_<id>': the stored history
  servers,            \* the ids StorageService.getServers() returns
  notifications,      \* what the notification sink has accepted, in order
  now,                \* Date.now(), in milliseconds
  task,               \* the background task: its place in the loop and its snapshot
  passes,             \* how many passes the scheduling host has started
  persistedConfigs,   \* AsyncStorage '@monitoring_configs': the saved configs, or null
  registered,         \* whether the background task is registered with the host
  ops,                \* registry and server-list operations so far
  nfaults,            \* failed storage and sink calls so far
  appended,           \* every history record stored so far, per target, in order
  last,               \* the last checkServerHealth call: what it read, built and did
  uptimeCall,         \* the last calculateUptime call: what it considered and returned
  initialized,        \* the service's initialized flag
  op,                 \* the last registry operation: its name, argument and outcome
  calls,              \* the checkServerHealth calls in flight, one per caller
  historyCall,        \* the last getHealthHistory call: its limit and what it returned
  initCalls,          \* the initialize calls in flight, one per caller: where each stands
  loads,              \* how often this process has loaded the saved configs
  connections,        \* SSHService.connections: the ConnectionState of each server, or null
  clients,            \* every client the SSH library has created: "open" or "closed"
  sshCalls,           \* the SSHService calls in flight, one per caller
  executed            \* every client.execute invocation so far, in order

vars == <<healthCheckConfigs, statusStore, historyStore, servers, notifications,
          now, task, passes, persistedConfigs, registered, ops, nfaults, appended,
          last, uptimeCall, initialized, op, calls, historyCall, initCalls,
          loads, connections, clients, sshCalls, executed>>

\* the state of the SSH service
sshVars == <<connections, clients, sshCalls, executed>>

\* the state of the monitoring service, the clock and the call count aside
monitoringVars ==
  <<healthCheckConfigs, statusStore, historyStore, servers, notifications, task,
    passes, persistedConfigs, registered, nfaults, appended, last, uptimeCall,
    initialized, op, calls, historyCall, initCalls, loads>>

----------------------------------------------------------------------------
(* Bounds of the model.                                                    *)

\* passes the scheduling host starts in Spec
MaxPasses == 3
\* passes the scheduling host starts in SpecFaults
MaxFaultPasses == 2
\* registry and server-list operations in Spec and SpecFaults
MaxOps == 2
\* storage or sink calls that fail in SpecFaults
MaxFaults == 1
\* direct checkServerHealth calls of SpecLong (more than the history cap)
MaxLongChecks == 1003
\* in SpecLong the probe outcome is free for the first calls only
MaxVaried == 2
\* records of a seeded history in SpecUptime
MaxSeed == 40
\* of which records older than the window
MaxStale == 2
\* registry operations, starts and ends of the process in SpecRegistry
MaxRegistryOps == 3
\* checkServerHealth calls of the two callers together in SpecOverlap
MaxOverlapCalls == 2

ServerIds == {"s1", "s2"}
\* HealthCheckConfig.interval, in minutes: never read by the service
Intervals == {15}
\* elapsed time of one probe, in milliseconds
Latencies == {42}

----------------------------------------------------------------------------
(* Values.                                                                 *)

\* JavaScript null; a nullable number or string v is held as <<v>>
null == <<>>
Some(v) == <<v>>

\* 24 * 60 * 60 * 1000, the uptime window
DayMs == 24 * 60 * 60 * 1000
\* minimumInterval of the background task: 15 minutes
MinIntervalMs == 15 * 60 * 1000
MinuteMs == 60 * 1000

\* history.slice(-1000)
HistoryCap == 1000
\* getHealthHistory(serverId, limit = 100)
DefaultLimit == 100

\* new Date(ms).toISOString(): the calendar day and the time of day, to the
\* millisecond
toISOString(ms) == <<ms \div DayMs, ms % DayMs>>
\* new Date(iso).getTime()
getTime(iso) == iso[1] * DayMs + iso[2]

Max(a, b) == IF a >= b THEN a ELSE b
Min(a, b) == IF a <= b THEN a ELSE b

\* Array.prototype.slice(-n): the last n elements (all of them when fewer)
SliceLast(arr, n) ==
  IF n = 0 THEN arr   \* slice(-0) is slice(0)
  ELSE SubSeq(arr, Max(1, Len(arr) - n + 1), Len(arr))

RECURSIVE CountIf(_, _)
\* how many records of arr have the given status
CountIf(arr, st) ==
  IF arr = <<>> THEN 0
  ELSE (IF Head(arr).status = st THEN 1 ELSE 0) + CountIf(Tail(arr), st)

----------------------------------------------------------------------------
(* The registry: a Map keeps its keys in insertion order.                  *)

MapIndex(m, id) ==
  IF \E i \in 1..Len(m) : m[i].serverId = id
  THEN CHOOSE i \in 1..Len(m) : m[i].serverId = id
  ELSE 0

MapHas(m, id) == MapIndex(m, id) # 0

\* Map.get: the config, or null (undefined)
MapGet(m, id) == IF MapHas(m, id) THEN m[MapIndex(m, id)] ELSE null

\* a variant that adds an entry for a key the Map already has
MapSet_Appends(m, config) ==
  Append(m, config)

\* Map.set: an existing key keeps its place, a new key goes last
MapSet(m, config) ==
  IF MapHas(m, config.serverId)
  THEN [m EXCEPT ![MapIndex(m, config.serverId)] = config]
  ELSE Append(m, config)

\* Map.delete
MapDelete(m, id) == SelectSeq(m, LAMBDA c : c.serverId # id)

Configs ==
  [serverId : ServerIds, interval : Intervals, enabled : BOOLEAN,
   notifyOnFailure : BOOLEAN, notifyOnRecovery : BOOLEAN]

----------------------------------------------------------------------------
(* The connectivity check.                                                 *)

\* what the environment does to one probe: the SSH connection is made, the
\* connection is rejected (refused, timed out, authentication failed), or the
\* provider cannot be called at all (the dynamic import or its binding throws)
ProbeOutcomes == {"connected", "rejected", "unavailable"}

\* SSHService.testConnection: never throws, resolves with an object
testConnection(outcome) ==
  IF outcome = "connected"
  THEN [success |-> TRUE, error |-> null]
  ELSE [success |-> FALSE, error |-> Some("Connection refused")]

\* ECMAScript ToBoolean of what testConnection resolves with: an object
ToBoolean(obj) == TRUE

\* a variant that measures the elapsed time whatever the outcome
probe_TimesEveryOutcome(outcome, lat) ==
  IF outcome = "unavailable"
  THEN [status |-> "error", responseTime |-> Some(lat),
        errorMessage |-> Some("SSHService unavailable")]
  ELSE [status |-> "online", responseTime |-> Some(lat), errorMessage |-> null]

\* the try/catch of checkServerHealth: status, responseTime, errorMessage
probe(outcome, lat) ==
  IF outcome = "unavailable"
  THEN [status |-> "error", responseTime |-> null,
        errorMessage |-> Some("SSHService unavailable")]
  ELSE LET connected == testConnection(outcome)
       IN  IF ToBoolean(connected)
           THEN [status |-> "online", responseTime |-> Some(lat),
                 errorMessage |-> null]
           ELSE [status |-> "offline", responseTime |-> null,
                 errorMessage |-> Some("Connection failed")]

----------------------------------------------------------------------------
(* Storage.  A failing AsyncStorage call (or a JSON.parse of damaged data) *)
(* is caught by each helper; fails = TRUE is such a call.                  *)

\* the storage faults of one checkServerHealth call, and the sink's
Faults ==
  [statusRead : BOOLEAN, histAppend : BOOLEAN, histRead : BOOLEAN,
   statusWrite : BOOLEAN, notify : BOOLEAN]

NoFaults ==
  [statusRead |-> FALSE, histAppend |-> FALSE, histRead |-> FALSE,
   statusWrite |-> FALSE, notify |-> FALSE]

FaultCount(f) ==
  Cardinality({k \in DOMAIN f : f[k]})

getServerStatus(store, serverId, fails) ==
  IF fails THEN null ELSE store[serverId]

\* the AsyncStorage keys: the prefix, the kind of item and the target's id
statusKey(serverId) == <<"@monitoring_", "status_", serverId>>
historyKey(serverId) == <<"@monitoring_", "history_", serverId>>
configsKey == <<"@monitoring_", "configs">>

\* a variant whose status key leaves the target's id out
saveServerStatus_SharedKey(store, serverId, status, fails) ==
  IF fails THEN store ELSE [id \in DOMAIN store |-> status]

\* a variant whose failing write has stored the status all the same
saveServerStatus_WritesOnFailure(store, serverId, status, fails) ==
  [store EXCEPT ![serverId] = status]

saveServerStatus(store, serverId, status, fails) ==
  IF fails THEN store ELSE [store EXCEPT ![serverId] = status]

\* a variant that misses the newest record, as a read made before the append
getHealthHistory_BeforeAppend(store, serverId, limit, fails) ==
  IF fails \/ store[serverId] = <<>> THEN <<>>
  ELSE SliceLast(SubSeq(store[serverId], 1, Len(store[serverId]) - 1), limit)

getHealthHistory(store, serverId, limit, fails) ==
  IF fails THEN <<>> ELSE SliceLast(store[serverId], limit)

\* a variant that trims from the wrong end: slice(0, 1000)
addHistoryEntry_KeepOldest(store, serverId, entry, fails) ==
  IF fails THEN store
  ELSE [store EXCEPT ![serverId] =
          SubSeq(Append(@, entry), 1, Min(Len(@) + 1, HistoryCap))]

addHistoryEntry(store, serverId, entry, fails) ==
  IF fails THEN store
  ELSE [store EXCEPT ![serverId] = SliceLast(Append(@, entry), HistoryCap)]

----------------------------------------------------------------------------
(* Uptime.                                                                 *)

\* the ratios s/n at which the double (s / n) * 100 falls just below a tie:
\* (23 / 40) * 100 is 57.49999999999999 in IEEE-754 double arithmetic, and
\* likewise 0.145, 0.285 and 0.565 (every n up to HistoryCap was computed)
FloatBelowTie(s, n) == 200 * s \in {29 * n, 57 * n, 113 * n, 115 * n}

\* a variant that gives a fraction of a thousand
MathRoundPct_Permille(s, n) ==
  (2000 * s + n) \div (2 * n)

\* Math.round((s / n) * 100), for 0 <= s <= n, n > 0: Math.round rounds to the
\* nearest integer, a tie towards +Infinity
MathRoundPct(s, n) ==
  IF FloatBelowTie(s, n) THEN (100 * s) \div n
  ELSE (200 * s + n) \div (2 * n)

\* calculateUptime, given what getHealthHistory returned and Date.now()
calculateUptime(history, at) ==
  LET oneDayAgo == at - DayMs
      recentHistory ==
        SelectSeq(history, LAMBDA entry : getTime(entry.timestamp) > oneDayAgo)
      successCount == CountIf(recentHistory, "success")
  IN  IF Len(recentHistory) = 0 THEN 100
      ELSE MathRoundPct(successCount, Len(recentHistory))

----------------------------------------------------------------------------
(* Notifications.                                                          *)

\* a variant that notifies on the level, not on the change
statusChanged_Level(previousStatus, currentStatus) ==
  previousStatus # null

\* a variant that takes a first status for a change
statusChanged_NoPrevious(previousStatus, currentStatus) ==
  previousStatus = null \/ previousStatus.status # currentStatus.status

\* const statusChanged = previousStatus && previousStatus.status !== ...
statusChanged(previousStatus, currentStatus) ==
  previousStatus # null /\ previousStatus.status # currentStatus.status

\* a variant that does not look at config.notifyOnFailure
notifiesFailure_IgnoresFlag(currentStatus, config) ==
  currentStatus.status # "online"

\* "Server went offline"
notifiesFailure(currentStatus, config) ==
  currentStatus.status # "online" /\ config.notifyOnFailure

\* a variant that does not look at config.notifyOnRecovery
notifiesRecovery_IgnoresFlag(currentStatus, config) ==
  currentStatus.status = "online"

\* "Server came back online"
notifiesRecovery(currentStatus, config) ==
  currentStatus.status = "online" /\ config.notifyOnRecovery

\* what handleNotifications hands to sendNotification, in order
handleNotifications(server, currentStatus, previousStatus, config) ==
  IF ~statusChanged(previousStatus, currentStatus) THEN <<>>
  ELSE     (IF notifiesFailure(currentStatus, config)
            THEN << [title |-> <<"Server", server.name, "is", currentStatus.status>>,
                     body  |-> IF currentStatus.errorMessage # null
                               THEN currentStatus.errorMessage
                               ELSE Some("Connection check failed"),
                     data  |-> [serverId |-> server.id, type |-> "failure"]] >>
            ELSE <<>>)
           \o
           (IF notifiesRecovery(currentStatus, config)
            THEN << [title |-> <<"Server", server.name, "is back online">>,
                     body  |-> currentStatus.responseTime,
                     data  |-> [serverId |-> server.id, type |-> "recovery"]] >>
            ELSE <<>>)

\* the Server of an id, as StorageService.getServers() returns it
ServerOf(id) == [id |-> id, name |-> id]

----------------------------------------------------------------------------
(* checkServerHealth.                                                      *)

\* a variant that forgets the last time online when the probe is not online
nextLastOnline_Forgets(status, previousStatus, at) ==
  IF status = "online" THEN toISOString(at) ELSE null

\* status === 'online' ? new Date().toISOString()
\*                     : previousStatus?.lastOnline || null
nextLastOnline(status, previousStatus, at) ==
  IF status = "online" THEN toISOString(at)
  ELSE IF previousStatus = null THEN null
  ELSE previousStatus.lastOnline

\* a variant that leaves the increment out
nextConsecutiveFailures_NoIncrement(status, previousStatus) ==
  IF status = "online" \/ previousStatus = null THEN 0
  ELSE previousStatus.consecutiveFailures

\* a variant that never resets the counter: an online probe keeps the count
nextConsecutiveFailures_NoReset(status, previousStatus) ==
  (IF previousStatus = null THEN 0 ELSE previousStatus.consecutiveFailures)
  + (IF status = "online" THEN 0 ELSE 1)

\* status === 'online' ? 0 : (previousStatus?.consecutiveFailures || 0) + 1
nextConsecutiveFailures(status, previousStatus) ==
  IF status = "online" THEN 0
  ELSE (IF previousStatus = null THEN 0
        ELSE previousStatus.consecutiveFailures) + 1

\* One call of checkServerHealth(serverId, server) started at startTime, with
\* the probe's outcome and elapsed time and the faults it meets: the stores
\* it leaves, what the sink accepted, and whether the call rejected.
checkServerHealth(serverId, server, startTime, outcome, lat, f) ==
  LET p == probe(outcome, lat)
      at == startTime + lat
      previousStatus == getServerStatus(statusStore, serverId, f.statusRead)
      consecutiveFailures == nextConsecutiveFailures(p.status, previousStatus)
      entry == [timestamp    |-> toISOString(at),
                status       |-> IF p.status = "online" THEN "success" ELSE "failure",
                responseTime |-> p.responseTime,
                error        |-> p.errorMessage]
      history1 == addHistoryEntry(historyStore, serverId, entry, f.histAppend)
      considered == getHealthHistory(history1, serverId, DefaultLimit, f.histRead)
      uptimePercentage == calculateUptime(considered, at)
      healthStatus ==
        [serverId            |-> serverId,
         status              |-> p.status,
         lastChecked         |-> toISOString(at),
         lastOnline          |-> nextLastOnline(p.status, previousStatus, at),
         consecutiveFailures |-> consecutiveFailures,
         uptimePercentage    |-> uptimePercentage,
         responseTime        |-> p.responseTime,
         errorMessage        |-> p.errorMessage]
      status1 == saveServerStatus(statusStore, serverId, healthStatus, f.statusWrite)
      config == MapGet(healthCheckConfigs, serverId)
      intents == IF config # null
                 THEN handleNotifications(server, healthStatus, previousStatus, config)
                 ELSE <<>>
      \* sendNotification awaits the sink and catches nothing
      threw == intents # <<>> /\ f.notify
  IN  [statusStore    |-> status1,
       historyStore   |-> history1,
       sent           |-> IF threw THEN <<>> ELSE intents,
       threw          |-> threw,
       at             |-> at,
       outcome        |-> outcome,
       previousStatus |-> previousStatus,
       entry          |-> entry,
       considered     |-> considered,
       healthStatus   |-> healthStatus,
       config         |-> config,
       faults         |-> f]

\* the state a call leaves, but for the task's own
CheckEffects(serverId, r) ==
  /\ statusStore' = r.statusStore
  /\ historyStore' = r.historyStore
  /\ notifications' = notifications \o r.sent
  /\ now' = r.at
  /\ appended' = IF r.faults.histAppend THEN appended
                 ELSE [appended EXCEPT ![serverId] = Append(@, r.entry)]
  /\ last' = [n              |-> (IF last = null THEN 0 ELSE last.n) + 1,
              serverId       |-> serverId,
              outcome        |-> r.outcome,
              previousStatus |-> r.previousStatus,
              entry          |-> r.entry,
              healthStatus   |-> r.healthStatus,
              config         |-> r.config,
              sent           |-> r.sent,
              threw          |-> r.threw,
              faults         |-> r.faults]
  /\ uptimeCall' = [serverId |-> serverId, history |-> r.considered,
                    at |-> r.at, value |-> r.healthStatus.uptimePercentage]

----------------------------------------------------------------------------
(* The registry's operations.                                              *)

\* a variant that saves the enabled configs only
saveConfigs_OnlyEnabled(saved, m, fails) ==
  IF fails THEN saved ELSE SelectSeq(m, LAMBDA c : c.enabled)

\* saveConfigs: the whole registry replaces what was saved; a failing write
\* is caught and leaves it
saveConfigs(saved, m, fails) ==
  IF fails THEN saved ELSE m

RECURSIVE SetAll(_, _)
\* configs.forEach(config => this.healthCheckConfigs.set(config.serverId, config))
SetAll(m, configs) ==
  IF configs = <<>> THEN m
  ELSE SetAll(MapSet(m, Head(configs)), Tail(configs))

\* loadConfigs: the saved configs are set into the Map; nothing saved, or a
\* failing read, leaves the Map as it is
loadConfigs(m, saved, fails) ==
  IF fails \/ saved = null THEN m ELSE SetAll(m, saved)

\* The task's snapshot holds the config objects themselves: an element is
\* live while its object is still the one in the Map.
Detach(snapshot, id) ==
  [k \in DOMAIN snapshot |->
     IF snapshot[k].cfg.serverId = id
     THEN [snapshot[k] EXCEPT !.live = FALSE] ELSE snapshot[k]]

SetEnabled(snapshot, id, enabled) ==
  [k \in DOMAIN snapshot |->
     IF snapshot[k].cfg.serverId = id /\ snapshot[k].live
     THEN [snapshot[k] EXCEPT !.cfg.enabled = enabled] ELSE snapshot[k]]

scheduleHealthCheck(config, fails) ==
  /\ healthCheckConfigs' = MapSet(healthCheckConfigs, config)
  /\ persistedConfigs' = saveConfigs(persistedConfigs, healthCheckConfigs', fails)
  /\ registered' = (registered \/ config.enabled)
  /\ task' = [task EXCEPT !.configs = Detach(@, config.serverId)]
  /\ UNCHANGED <<statusStore, historyStore, servers, notifications, now, passes,
                 nfaults, appended, last, uptimeCall,
                 initialized, calls, historyCall,
                 initCalls, loads,
                 sshVars>>

unscheduleHealthCheck(serverId, fails) ==
  /\ healthCheckConfigs' = MapDelete(healthCheckConfigs, serverId)
  /\ persistedConfigs' = saveConfigs(persistedConfigs, healthCheckConfigs', fails)
  /\ task' = [task EXCEPT !.configs = Detach(@, serverId)]
  /\ UNCHANGED <<statusStore, historyStore, servers, notifications, now, passes,
                 registered, nfaults, appended, last, uptimeCall,
                 initialized, calls, historyCall,
                 initCalls, loads,
                 sshVars>>

\* a variant that creates a config for a target that has none
toggled_Upserts(m, serverId, enabled) ==
  IF MapHas(m, serverId)
  THEN [m EXCEPT ![MapIndex(m, serverId)].enabled = enabled]
  ELSE Append(m, [serverId |-> serverId, interval |-> CHOOSE i \in Intervals : TRUE,
                  enabled |-> enabled, notifyOnFailure |-> TRUE,
                  notifyOnRecovery |-> TRUE])

\* the registry toggleMonitoring leaves
toggled(m, serverId, enabled) ==
  IF MapHas(m, serverId)
  THEN [m EXCEPT ![MapIndex(m, serverId)].enabled = enabled]
  ELSE m

toggleMonitoring(serverId, enabled, fails) ==
  /\ healthCheckConfigs' = toggled(healthCheckConfigs, serverId, enabled)
  /\ IF MapHas(healthCheckConfigs, serverId)
     THEN /\ persistedConfigs' = saveConfigs(persistedConfigs, healthCheckConfigs', fails)
          /\ task' = [task EXCEPT !.configs = SetEnabled(@, serverId, enabled)]
     ELSE UNCHANGED <<persistedConfigs, task>>
  /\ UNCHANGED <<statusStore, historyStore, servers, notifications, now, passes,
                 registered, nfaults, appended, last, uptimeCall,
                 initialized, calls, historyCall,
                 initCalls, loads,
                 sshVars>>

\* the server list changes outside the service
RemoveServer(id) ==
  /\ id \in servers
  /\ servers' = servers \ {id}
  /\ UNCHANGED <<healthCheckConfigs, statusStore, historyStore, notifications,
                 now, task, passes, persistedConfigs, registered, nfaults, appended,
                 last, uptimeCall,
                 initialized, calls, historyCall,
                 initCalls, loads,
                 sshVars>>

AddServer(id) ==
  /\ id \notin servers
  /\ servers' = servers \cup {id}
  /\ UNCHANGED <<healthCheckConfigs, statusStore, historyStore, notifications,
                 now, task, passes, persistedConfigs, registered, nfaults, appended,
                 last, uptimeCall,
                 initialized, calls, historyCall,
                 initCalls, loads,
                 sshVars>>

----------------------------------------------------------------------------
(* The background task: one monitoring pass.                               *)

\* time between two wake-ups of the task
Gaps == {MinIntervalMs, DayMs}

\* getConfigs(): Array.from(values()), the objects of the Map in its order
getConfigs(m) == [k \in DOMAIN m |-> [cfg |-> m[k], live |-> TRUE]]

\* result: what the last pass returned; unprobed: the targets of its snapshot,
\* enabled and in its server list, that came after the target whose check ended
\* the pass and so were left without a checkServerHealth call
IdleTask == [pc |-> "idle", configs |-> <<>>, servers |-> {}, i |-> 0,
             result |-> "none", unprobed |-> {}]

\* a variant that probes disabled configs too
isDue_IgnoresEnabled(config, serverList) ==
  config.serverId \in serverList

\* a variant that probes a config whose server is not in the list
isDue_IgnoresFound(config, serverList) ==
  config.enabled

\* if (config.enabled) { const server = servers.find(...); if (server) ... }
isDue(config, serverList) ==
  config.enabled /\ config.serverId \in serverList

\* the enabled configs of the snapshot after place i whose server is found
Remaining(t) ==
  {t.configs[k].cfg.serverId : k \in {j \in DOMAIN t.configs :
       j > t.i /\ isDue(t.configs[j].cfg, t.servers)}}

\* the loop goes on to its next turn, or is over: the task returns NewData
Advance(t) ==
  IF t.i < Len(t.configs)
  THEN [t EXCEPT !.i = @ + 1]
  ELSE [IdleTask EXCEPT !.result = "NewData"]

\* checkServerHealth rejected: the catch around the whole pass returns Failed
Abort(t) ==
  [IdleTask EXCEPT !.result = "Failed", !.unprobed = Remaining(t)]

\* the host wakes the task: it takes the configs and the server list
TaskStart(gap, maxPasses) ==
  /\ task.pc = "idle"
  /\ registered
  /\ passes < maxPasses
  /\ passes' = passes + 1
  /\ now' = now + gap
  /\ task' = LET t == [pc |-> "loop", configs |-> getConfigs(healthCheckConfigs),
                       servers |-> servers, i |-> 1, result |-> "none",
                       unprobed |-> {}]
             IN  IF t.configs = <<>> THEN Advance(t) ELSE t
  /\ UNCHANGED <<healthCheckConfigs, statusStore, historyStore, servers,
                 notifications, persistedConfigs, registered, ops, nfaults,
                 appended, last, uptimeCall,
                 initialized, op, calls, historyCall,
                 initCalls, loads,
                 sshVars>>

\* the import of StorageService or getServers() throws: the pass fails at once
TaskStartFails(gap, maxPasses) ==
  /\ task.pc = "idle"
  /\ registered
  /\ passes < maxPasses
  /\ passes' = passes + 1
  /\ now' = now + gap
  /\ nfaults < MaxFaults
  /\ nfaults' = nfaults + 1
  /\ task' = [IdleTask EXCEPT !.result = "Failed"]
  /\ UNCHANGED <<healthCheckConfigs, statusStore, historyStore, servers,
                 notifications, persistedConfigs, registered, ops, appended,
                 last, uptimeCall,
                 initialized, op, calls, historyCall,
                 initCalls, loads,
                 sshVars>>

\* one turn of the loop over the configs
TaskStep(outcome, lat, f) ==
  /\ task.pc = "loop"
  /\ task.i <= Len(task.configs)
  /\ LET config == task.configs[task.i].cfg
     IN  IF isDue(config, task.servers)
         THEN LET r == checkServerHealth(config.serverId, ServerOf(config.serverId),
                                         now, outcome, lat, f)
              IN  /\ nfaults + FaultCount(f) <= MaxFaults
                  /\ nfaults' = nfaults + FaultCount(f)
                  /\ CheckEffects(config.serverId, r)
                  /\ task' = IF r.threw
                             THEN Abort(task)
                             ELSE Advance(task)
         ELSE /\ outcome = "connected" /\ lat = CHOOSE l \in Latencies : TRUE
              /\ f = NoFaults
              /\ task' = Advance(task)
              /\ UNCHANGED <<statusStore, historyStore, notifications, now,
                             nfaults, appended, last, uptimeCall>>
  /\ UNCHANGED <<healthCheckConfigs, servers, passes, persistedConfigs, registered,
                 ops,
                 initialized, op, calls, historyCall,
                 initCalls, loads,
                 sshVars>>

----------------------------------------------------------------------------
(* The service after construction, on a device with nothing stored.        *)

\* the callers of checkServerHealth
Callers == {1, 2}

\* no call in flight
NoCalls == [c \in Callers |-> null]

\* initialize has not been called
NoInitCalls == [c \in Callers |-> "idle"]

\* no SSHService call in flight
NoSshCalls == [c \in Callers |-> null]

\* SSHService after construction: an empty connection Map, no client created
InitSSH ==
  /\ connections = [id \in ServerIds |-> null]
  /\ clients = <<>>
  /\ sshCalls = NoSshCalls
  /\ executed = <<>>

Init ==
  /\ healthCheckConfigs = <<>>
  /\ statusStore = [id \in ServerIds |-> null]
  /\ historyStore = [id \in ServerIds |-> <<>>]
  /\ servers = ServerIds
  /\ notifications = <<>>
  /\ now = 0
  /\ task = IdleTask
  /\ passes = 0
  /\ persistedConfigs = null
  /\ registered = FALSE
  /\ ops = 0
  /\ nfaults = 0
  /\ appended = historyStore
  /\ last = null
  /\ uptimeCall = null
  /\ initialized = FALSE
  /\ op = null
  /\ calls = NoCalls
  /\ historyCall = null
  /\ initCalls = NoInitCalls
  /\ loads = 0
  /\ InitSSH

Registry ==
  /\ ops < MaxOps
  /\ ops' = ops + 1
  /\ UNCHANGED op
  /\ \/ \E config \in Configs : scheduleHealthCheck(config, FALSE)
     \/ \E id \in ServerIds : unscheduleHealthCheck(id, FALSE)
     \/ \E id \in ServerIds, enabled \in BOOLEAN : toggleMonitoring(id, enabled, FALSE)

ServerList ==
  /\ ops < MaxOps
  /\ ops' = ops + 1
  /\ UNCHANGED op
  /\ \/ \E id \in ServerIds : RemoveServer(id)
     \/ \E id \in ServerIds : AddServer(id)

\* storage and the notification sink work
Next ==
  \/ Registry
  \/ ServerList
  \/ \E gap \in Gaps : TaskStart(gap, MaxPasses)
  \/ \E outcome \in ProbeOutcomes, lat \in Latencies : TaskStep(outcome, lat, NoFaults)

Spec == Init /\ [][Next]_vars

\* the same service on a device whose server list lacks some of the targets
InitPass ==
  /\ healthCheckConfigs = <<>>
  /\ statusStore = [id \in ServerIds |-> null]
  /\ historyStore = [id \in ServerIds |-> <<>>]
  /\ servers \in SUBSET ServerIds
  /\ notifications = <<>>
  /\ now = 0
  /\ task = IdleTask
  /\ passes = 0
  /\ persistedConfigs = null
  /\ registered = FALSE
  /\ ops = 0
  /\ nfaults = 0
  /\ appended = historyStore
  /\ last = null
  /\ uptimeCall = null
  /\ initialized = FALSE
  /\ op = null
  /\ calls = NoCalls
  /\ historyCall = null
  /\ initCalls = NoInitCalls
  /\ loads = 0
  /\ InitSSH

SpecPass == InitPass /\ [][Next]_vars

\* storage calls and the notification sink may fail
NextFaults ==
  \/ Registry
  \/ ServerList
  \/ \E gap \in Gaps : TaskStart(gap, MaxFaultPasses)
  \/ \E gap \in Gaps : TaskStartFails(gap, MaxFaultPasses)
  \/ \E outcome \in ProbeOutcomes, lat \in Latencies, f \in Faults :
       TaskStep(outcome, lat, f)

SpecFaults == Init /\ [][NextFaults]_vars

----------------------------------------------------------------------------
(* The registry over the life of the app: the process ends and starts      *)
(* again, initialize loads what was saved, and a write of the configs may  *)
(* fail.                                                                   *)

\* initialize: loads the saved configs, once
initialize(fails) ==
  /\ healthCheckConfigs' =
       IF initialized THEN healthCheckConfigs
       ELSE loadConfigs(healthCheckConfigs, persistedConfigs, fails)
  /\ initialized' = TRUE
  /\ loads' = IF initialized \/ fails THEN loads ELSE loads + 1
  /\ task' = IF initialized \/ fails \/ persistedConfigs = null THEN task
             ELSE [task EXCEPT !.configs =
                     [k \in DOMAIN @ |->
                        IF MapHas(persistedConfigs, @[k].cfg.serverId)
                        THEN [@[k] EXCEPT !.live = FALSE] ELSE @[k]]]
  /\ UNCHANGED <<statusStore, historyStore, servers, notifications, now, passes,
                 persistedConfigs, registered, nfaults, appended, last,
                 uptimeCall, calls, historyCall,
                 initCalls,
                 sshVars>>

\* the process ends and a new one starts: memory is lost, storage is kept
Restart ==
  /\ healthCheckConfigs' = <<>>
  /\ initialized' = FALSE
  /\ task' = IdleTask
  /\ calls' = NoCalls
  /\ initCalls' = NoInitCalls
  /\ loads' = 0
  /\ UNCHANGED <<statusStore, historyStore, servers, notifications, now, passes,
                 persistedConfigs, registered, nfaults, appended, last,
                 uptimeCall, historyCall,
                 sshVars>>

\* what op records of a registry operation: the config the target had, if any,
\* and whether the write of the configs failed
OpRecord(name, serverId, arg, fails) ==
  [name |-> name, serverId |-> serverId, arg |-> arg,
   had |-> MapHas(healthCheckConfigs, serverId),
   previous |-> MapGet(healthCheckConfigs, serverId), fails |-> fails]

RegistryOp ==
  /\ ops < MaxRegistryOps
  /\ ops' = ops + 1
  /\ \/ \E config \in Configs, fails \in BOOLEAN :
          /\ scheduleHealthCheck(config, fails)
          /\ op' = OpRecord("scheduleHealthCheck", config.serverId, config, fails)
     \/ \E id \in ServerIds, fails \in BOOLEAN :
          /\ unscheduleHealthCheck(id, fails)
          /\ op' = OpRecord("unscheduleHealthCheck", id, null, fails)
     \/ \E id \in ServerIds, enabled \in BOOLEAN, fails \in BOOLEAN :
          /\ toggleMonitoring(id, enabled, fails)
          /\ op' = OpRecord("toggleMonitoring", id, enabled, fails)

Lifecycle ==
  /\ ops < MaxRegistryOps
  /\ ops' = ops + 1
  /\ op' = null
  /\ \/ \E fails \in BOOLEAN : initialize(fails)
     \/ Restart

NextRegistry ==
  \/ RegistryOp
  \/ Lifecycle

SpecRegistry == Init /\ [][NextRegistry]_vars

----------------------------------------------------------------------------
(* A new process over a snapshot an earlier process saved: initialize,     *)
(* scheduleHealthCheck and toggleMonitoring in every order.                *)

\* the configs of the snapshots the process starts over
SavedConfigs == {c \in Configs : c.notifyOnFailure /\ c.notifyOnRecovery}

\* the snapshots an earlier process may have saved: one config per target
Snapshots ==
  {<<a>> : a \in SavedConfigs}
    \cup {<<a, b>> : a \in {c \in SavedConfigs : c.serverId = "s1"},
                     b \in {c \in SavedConfigs : c.serverId = "s2"}}

InitNewProcess ==
  /\ healthCheckConfigs = <<>>
  /\ statusStore = [id \in ServerIds |-> null]
  /\ historyStore = [id \in ServerIds |-> <<>>]
  /\ servers = ServerIds
  /\ notifications = <<>>
  /\ now = 0
  /\ task = IdleTask
  /\ passes = 0
  /\ persistedConfigs \in Snapshots
  /\ registered \in BOOLEAN
  /\ ops = 0
  /\ nfaults = 0
  /\ appended = historyStore
  /\ last = null
  /\ uptimeCall = null
  /\ initialized = FALSE
  /\ op = null
  /\ calls = NoCalls
  /\ historyCall = null
  /\ initCalls = NoInitCalls
  /\ loads = 0
  /\ InitSSH

NewProcessSchedule ==
  /\ ops < MaxRegistryOps
  /\ ops' = ops + 1
  /\ \E config \in Configs, fails \in BOOLEAN :
       /\ scheduleHealthCheck(config, fails)
       /\ op' = OpRecord("scheduleHealthCheck", config.serverId, config, fails)

NewProcessToggle ==
  /\ ops < MaxRegistryOps
  /\ ops' = ops + 1
  /\ \E id \in ServerIds, enabled \in BOOLEAN, fails \in BOOLEAN :
       /\ toggleMonitoring(id, enabled, fails)
       /\ op' = OpRecord("toggleMonitoring", id, enabled, fails)

NewProcessInitialize ==
  /\ ops < MaxRegistryOps
  /\ ops' = ops + 1
  /\ op' = null
  /\ \E fails \in BOOLEAN : initialize(fails)

NextNewProcess ==
  \/ NewProcessSchedule
  \/ NewProcessToggle
  \/ NewProcessInitialize

SpecNewProcess == InitNewProcess /\ [][NextNewProcess]_vars

----------------------------------------------------------------------------
(* initialize await by await: two callers whose calls may overlap.         *)

\* if (this.initialized) return; otherwise the permissions are requested
InitializeEnter(c) ==
  /\ initCalls[c] \in {"idle", "returned"}
  /\ initCalls' = [initCalls EXCEPT ![c] =
                     IF initialized THEN "returned" ELSE "requestPermissions"]
  /\ UNCHANGED <<healthCheckConfigs, statusStore, historyStore, servers,
                 notifications, now, task, passes, persistedConfigs, registered,
                 ops, nfaults, appended, last, uptimeCall, initialized, op, calls,
                 historyCall, loads,
                 sshVars>>

\* requestPermissionsAsync resolves (granted or not), or rejects: initialize
\* catches nothing and the call ends there
InitializePermissions(c, rejects) ==
  /\ initCalls[c] = "requestPermissions"
  /\ initCalls' = [initCalls EXCEPT ![c] =
                     IF rejects THEN "returned" ELSE "loadConfigs"]
  /\ UNCHANGED <<healthCheckConfigs, statusStore, historyStore, servers,
                 notifications, now, task, passes, persistedConfigs, registered,
                 ops, nfaults, appended, last, uptimeCall, initialized, op, calls,
                 historyCall, loads,
                 sshVars>>

\* await this.loadConfigs(); this.initialized = true
InitializeLoad(c, fails) ==
  /\ initCalls[c] = "loadConfigs"
  /\ healthCheckConfigs' = loadConfigs(healthCheckConfigs, persistedConfigs, fails)
  /\ loads' = IF fails THEN loads ELSE loads + 1
  /\ initialized' = TRUE
  /\ initCalls' = [initCalls EXCEPT ![c] = "returned"]
  /\ task' = IF fails \/ persistedConfigs = null THEN task
             ELSE [task EXCEPT !.configs =
                     [k \in DOMAIN @ |->
                        IF MapHas(persistedConfigs, @[k].cfg.serverId)
                        THEN [@[k] EXCEPT !.live = FALSE] ELSE @[k]]]
  /\ UNCHANGED <<statusStore, historyStore, servers, notifications, now, passes,
                 persistedConfigs, registered, ops, nfaults, appended, last,
                 uptimeCall, op, calls, historyCall,
                 sshVars>>

NextInit ==
  \/ RegistryOp
  \/ \E c \in Callers : InitializeEnter(c)
  \/ \E c \in Callers, rejects \in BOOLEAN : InitializePermissions(c, rejects)
  \/ \E c \in Callers, fails \in BOOLEAN : InitializeLoad(c, fails)

SpecInit == Init /\ [][NextInit]_vars

----------------------------------------------------------------------------
(* Long histories: checkServerHealth called for one target, minute after   *)
(* minute, more often than the history cap.  The probe's outcome is free   *)
(* for the first MaxVaried calls and "connected" afterwards.               *)

Calls == IF last = null THEN 0 ELSE last.n

LongCheck(outcome, lat) ==
  /\ Calls < MaxLongChecks
  /\ Calls >= MaxVaried => outcome = "connected"
  /\ LET r == checkServerHealth("s1", ServerOf("s1"), now + MinuteMs, outcome,
                                lat, NoFaults)
     IN  CheckEffects("s1", r)
  /\ UNCHANGED <<healthCheckConfigs, servers, task, passes, persistedConfigs,
                 registered, ops, nfaults,
                 initialized, op, calls, historyCall,
                 initCalls, loads,
                 sshVars>>

NextLong == \E outcome \in ProbeOutcomes, lat \in Latencies : LongCheck(outcome, lat)

SpecLong == Init /\ [][NextLong]_vars

----------------------------------------------------------------------------
(* calculateUptime on stored histories: stale records, the newest of them  *)
(* exactly 24 hours old, then failures and successes inside the window,    *)
(* the oldest of them one millisecond inside it.                           *)

SeedNow == 2 * DayMs

SeedRecord(ts, st) ==
  [timestamp    |-> toISOString(ts),
   status       |-> st,
   responseTime |-> IF st = "success" THEN Some(CHOOSE l \in Latencies : TRUE) ELSE null,
   error        |-> IF st = "success" THEN null ELSE Some("SSHService unavailable")]

SeedHistory(stale, failures, successes) ==
  [k \in 1..(stale + failures + successes) |->
     IF k <= stale
     THEN SeedRecord(SeedNow - DayMs - (stale - k),
                     IF k % 2 = 0 THEN "success" ELSE "failure")
     ELSE SeedRecord(SeedNow - DayMs + (k - stale),
                     IF k <= stale + failures THEN "failure" ELSE "success")]

InitUptime ==
  /\ healthCheckConfigs = <<>>
  /\ statusStore = [id \in ServerIds |-> null]
  /\ \E stale \in 0..MaxStale, n \in 0..MaxSeed : \E successes \in 0..n :
       historyStore = [id \in ServerIds |->
                         IF id = "s1" THEN SeedHistory(stale, n - successes, successes)
                         ELSE <<>>]
  /\ servers = ServerIds
  /\ notifications = <<>>
  /\ now = SeedNow
  /\ task = IdleTask
  /\ passes = 0
  /\ persistedConfigs = null
  /\ registered = FALSE
  /\ ops = 0
  /\ nfaults = 0
  /\ appended = historyStore
  /\ last = null
  /\ uptimeCall = null
  /\ initialized = FALSE
  /\ op = null
  /\ calls = NoCalls
  /\ historyCall = null
  /\ initCalls = NoInitCalls
  /\ loads = 0
  /\ InitSSH

\* one call of calculateUptime(serverId); fails: the history cannot be read
UptimeCall(serverId, fails) ==
  /\ uptimeCall = null
  /\ LET history == getHealthHistory(historyStore, serverId, DefaultLimit, fails)
     IN  uptimeCall' = [serverId |-> serverId, history |-> history, at |-> now,
                        value |-> calculateUptime(history, now)]
  /\ UNCHANGED <<healthCheckConfigs, statusStore, historyStore, servers,
                 notifications, now, task, passes, persistedConfigs, registered,
                 ops, nfaults, appended, last,
                 initialized, op, calls, historyCall,
                 initCalls, loads,
                 sshVars>>

\* the limits getHealthHistory is called with: none, fewer than most
\* histories hold, and the default
Limits == {0, 1, 3, DefaultLimit}

\* one call of getHealthHistory(serverId, limit); fails: the read fails
HistoryCall(serverId, limit, fails) ==
  /\ historyCall = null
  /\ historyCall' = [serverId |-> serverId, limit |-> limit, fails |-> fails,
                     stored |-> historyStore[serverId],
                     result |-> getHealthHistory(historyStore, serverId, limit, fails)]
  /\ UNCHANGED <<healthCheckConfigs, statusStore, historyStore, servers,
                 notifications, now, task, passes, persistedConfigs, registered,
                 ops, nfaults, appended, last, uptimeCall, initialized, op, calls,
                 initCalls, loads,
                 sshVars>>

\* the faults of a check that touch the history
HistoryFaults ==
  {f \in Faults : ~f.statusRead /\ ~f.statusWrite /\ ~f.notify
                   /\ ~(f.histAppend /\ f.histRead)}

\* one call of checkServerHealth on the stored history, begun lat milliseconds
\* ago: its probe ends now
UptimeCheck(serverId, outcome, lat, f) ==
  /\ last = null
  /\ uptimeCall = null
  /\ historyCall = null
  /\ CheckEffects(serverId,
                  checkServerHealth(serverId, ServerOf(serverId), now - lat, outcome,
                                    lat, f))
  /\ UNCHANGED <<healthCheckConfigs, servers, task, passes, persistedConfigs,
                 registered, ops, nfaults, initialized, op, calls, historyCall,
                 initCalls, loads,
                 sshVars>>

NextUptime ==
  \/ \E fails \in BOOLEAN : UptimeCall("s1", fails)
  \/ \E outcome \in ProbeOutcomes, lat \in Latencies, f \in HistoryFaults :
       UptimeCheck("s1", outcome, lat, f)
  \/ \E id \in ServerIds, limit \in Limits, fails \in BOOLEAN :
       HistoryCall(id, limit, fails)

SpecUptime == InitUptime /\ [][NextUptime]_vars

----------------------------------------------------------------------------
(* checkServerHealth await by await: two callers (two passes, or a pass    *)
(* and a direct call) whose calls may overlap.  A call gives way at each    *)
(* of its awaits, and an AsyncStorage call is atomic.                      *)

\* a variant that evaluates the notifications before it saves the status
Steps_NotifyBeforeSave ==
  << "testConnection", "getServerStatus", "addHistoryEntry.getItem",
     "addHistoryEntry.setItem", "getHealthHistory", "handleNotifications",
     "saveServerStatus" >>

\* the awaits of checkServerHealth, in the order of its statements
Steps ==
  << "testConnection", "getServerStatus", "addHistoryEntry.getItem",
     "addHistoryEntry.setItem", "getHealthHistory", "saveServerStatus",
     "handleNotifications" >>

\* where a call stands after the await named st: the next one, or returned
After(st) ==
  LET k == CHOOSE i \in 1..Len(Steps) : Steps[i] = st
  IN  IF k < Len(Steps) THEN Steps[k + 1] ELSE "returned"

\* the call of caller c stands before the await named st
At(c, st) == calls[c] # null /\ calls[c].pc = st

\* the call of caller c has done the await named st
Proceed(c, st, locals) ==
  [locals EXCEPT !.pc = After(st), !.done = Append(@, st)]

\* the calls caller c has made
CallsOf(c) == IF calls[c] = null THEN 0 ELSE calls[c].n

\* const startTime = Date.now()
CallStart(c, serverId) ==
  /\ IF calls[c] = null THEN TRUE ELSE calls[c].pc = "returned"
  /\ CallsOf(1) + CallsOf(2) < MaxOverlapCalls
  /\ calls' = [calls EXCEPT ![c] =
       [n              |-> CallsOf(c) + 1,
        pc             |-> Steps[1],
        serverId       |-> serverId,
        server         |-> ServerOf(serverId),
        startTime      |-> now,
        p              |-> null,
        previousStatus |-> null,
        entry          |-> null,
        history        |-> <<>>,
        healthStatus   |-> null,
        sent           |-> <<>>,
        done           |-> <<>>]]
  /\ UNCHANGED <<healthCheckConfigs, statusStore, historyStore, servers,
                 notifications, now, task, passes, persistedConfigs, registered,
                 ops, nfaults, appended, last, uptimeCall, initialized, op,
                 historyCall,
                 initCalls, loads,
                 sshVars>>

\* the probe is over, lat milliseconds later
CallTestConnection(c, outcome, lat) ==
  /\ At(c, "testConnection")
  /\ now' = now + lat
  /\ calls' = [calls EXCEPT ![c] =
       Proceed(c, "testConnection",
               [@ EXCEPT !.p = probe(outcome, now' - calls[c].startTime)])]
  /\ UNCHANGED <<healthCheckConfigs, statusStore, historyStore, servers,
                 notifications, task, passes, persistedConfigs, registered,
                 ops, nfaults, appended, last, uptimeCall, initialized, op,
                 historyCall,
                 initCalls, loads,
                 sshVars>>

\* const previousStatus = await this.getServerStatus(serverId)
CallGetServerStatus(c) ==
  /\ At(c, "getServerStatus")
  /\ calls' = [calls EXCEPT ![c] =
       Proceed(c, "getServerStatus",
               [@ EXCEPT !.previousStatus =
                           getServerStatus(statusStore, calls[c].serverId, FALSE)])]
  /\ UNCHANGED <<healthCheckConfigs, statusStore, historyStore, servers,
                 notifications, now, task, passes, persistedConfigs, registered,
                 ops, nfaults, appended, last, uptimeCall, initialized, op,
                 historyCall,
                 initCalls, loads,
                 sshVars>>

\* addHistoryEntry: the entry is built and the stored history is read
CallHistoryGetItem(c) ==
  /\ At(c, "addHistoryEntry.getItem")
  /\ calls' = [calls EXCEPT ![c] =
       Proceed(c, "addHistoryEntry.getItem",
               [@ EXCEPT !.entry =
                           [timestamp    |-> toISOString(now),
                            status       |-> IF calls[c].p.status = "online"
                                             THEN "success" ELSE "failure",
                            responseTime |-> calls[c].p.responseTime,
                            error        |-> calls[c].p.errorMessage],
                         !.history = historyStore[calls[c].serverId]])]
  /\ UNCHANGED <<healthCheckConfigs, statusStore, historyStore, servers,
                 notifications, now, task, passes, persistedConfigs, registered,
                 ops, nfaults, appended, last, uptimeCall, initialized, op,
                 historyCall,
                 initCalls, loads,
                 sshVars>>

\* addHistoryEntry: the history that was read, with the entry pushed and
\* trimmed, is written back
CallHistorySetItem(c) ==
  /\ At(c, "addHistoryEntry.setItem")
  /\ LET call == calls[c]
         read == [historyStore EXCEPT ![call.serverId] = call.history]
     IN  /\ historyStore' =
              [historyStore EXCEPT ![call.serverId] =
                 addHistoryEntry(read, call.serverId, call.entry, FALSE)[call.serverId]]
         /\ appended' = [appended EXCEPT ![call.serverId] = Append(@, call.entry)]
  /\ calls' = [calls EXCEPT ![c] = Proceed(c, "addHistoryEntry.setItem", @)]
  /\ UNCHANGED <<healthCheckConfigs, statusStore, servers, notifications, now,
                 task, passes, persistedConfigs, registered, ops, nfaults, last,
                 uptimeCall, initialized, op, historyCall,
                 initCalls, loads,
                 sshVars>>

\* calculateUptime reads the history; the new status is built
CallGetHealthHistory(c) ==
  /\ At(c, "getHealthHistory")
  /\ LET call == calls[c]
         considered == getHealthHistory(historyStore, call.serverId, DefaultLimit, FALSE)
         status == call.p.status
         previousStatus == call.previousStatus
         healthStatus ==
           [serverId            |-> call.serverId,
            status              |-> status,
            lastChecked         |-> toISOString(now),
            lastOnline          |-> nextLastOnline(status, previousStatus, now),
            consecutiveFailures |-> nextConsecutiveFailures(status, previousStatus),
            uptimePercentage    |-> calculateUptime(considered, now),
            responseTime        |-> call.p.responseTime,
            errorMessage        |-> call.p.errorMessage]
     IN  calls' = [calls EXCEPT ![c] =
           Proceed(c, "getHealthHistory", [@ EXCEPT !.healthStatus = healthStatus])]
  /\ UNCHANGED <<healthCheckConfigs, statusStore, historyStore, servers,
                 notifications, now, task, passes, persistedConfigs, registered,
                 ops, nfaults, appended, last, uptimeCall, initialized, op,
                 historyCall,
                 initCalls, loads,
                 sshVars>>

\* await this.saveServerStatus(serverId, healthStatus)
CallSaveServerStatus(c) ==
  /\ At(c, "saveServerStatus")
  /\ statusStore' = saveServerStatus(statusStore, calls[c].serverId,
                                     calls[c].healthStatus, FALSE)
  /\ calls' = [calls EXCEPT ![c] = Proceed(c, "saveServerStatus", @)]
  /\ UNCHANGED <<healthCheckConfigs, historyStore, servers, notifications, now,
                 task, passes, persistedConfigs, registered, ops, nfaults,
                 appended, last, uptimeCall, initialized, op, historyCall,
                 initCalls, loads,
                 sshVars>>

\* if (config) await this.handleNotifications(...)
CallHandleNotifications(c) ==
  /\ At(c, "handleNotifications")
  /\ LET call == calls[c]
         config == MapGet(healthCheckConfigs, call.serverId)
         intents == IF config # null
                    THEN handleNotifications(call.server, call.healthStatus,
                                             call.previousStatus, config)
                    ELSE <<>>
     IN  /\ notifications' = notifications \o intents
         /\ calls' = [calls EXCEPT ![c] =
               Proceed(c, "handleNotifications", [@ EXCEPT !.sent = intents])]
  /\ UNCHANGED <<healthCheckConfigs, statusStore, historyStore, servers, now,
                 task, passes, persistedConfigs, registered, ops, nfaults,
                 appended, last, uptimeCall, initialized, op, historyCall,
                 initCalls, loads,
                 sshVars>>

\* the record and the status a first check of a target leaves, its probe
\* begun at time 0
FirstCheck(serverId, outcome, lat) ==
  LET p == probe(outcome, lat)
      entry == [timestamp    |-> toISOString(lat),
                status       |-> IF p.status = "online" THEN "success" ELSE "failure",
                responseTime |-> p.responseTime,
                error        |-> p.errorMessage]
  IN  [entry  |-> entry,
       status |-> [serverId            |-> serverId,
                   status              |-> p.status,
                   lastChecked         |-> toISOString(lat),
                   lastOnline          |-> nextLastOnline(p.status, null, lat),
                   consecutiveFailures |-> nextConsecutiveFailures(p.status, null),
                   uptimePercentage    |-> calculateUptime(<<entry>>, lat),
                   responseTime        |-> p.responseTime,
                   errorMessage        |-> p.errorMessage]]

\* the registry holds a config for s1, as scheduleHealthCheck left it, and s1
\* has not been checked yet or has been checked once
InitOverlap ==
  /\ \E config \in Configs :
       /\ config.serverId = "s1"
       /\ config.enabled
       /\ healthCheckConfigs = <<config>>
       /\ persistedConfigs = saveConfigs(null, healthCheckConfigs, FALSE)
  /\ \/ /\ statusStore = [id \in ServerIds |-> null]
        /\ historyStore = [id \in ServerIds |-> <<>>]
        /\ now = 0
     \/ \E outcome \in ProbeOutcomes, lat \in Latencies :
          LET first == FirstCheck("s1", outcome, lat)
          IN  /\ statusStore = [id \in ServerIds |->
                                 IF id = "s1" THEN first.status ELSE null]
              /\ historyStore = [id \in ServerIds |->
                                  IF id = "s1" THEN <<first.entry>> ELSE <<>>]
              /\ now = lat
  /\ servers = ServerIds
  /\ notifications = <<>>
  /\ task = IdleTask
  /\ passes = 0
  /\ registered = TRUE
  /\ ops = 0
  /\ nfaults = 0
  /\ appended = historyStore
  /\ last = null
  /\ uptimeCall = null
  /\ initialized = TRUE
  /\ op = null
  /\ calls = NoCalls
  /\ historyCall = null
  /\ initCalls = NoInitCalls
  /\ loads = 0
  /\ InitSSH

NextOverlap ==
  \/ \E c \in Callers, id \in ServerIds : CallStart(c, id)
  \/ \E c \in Callers, outcome \in ProbeOutcomes, lat \in Latencies :
       CallTestConnection(c, outcome, lat)
  \/ \E c \in Callers : CallGetServerStatus(c)
  \/ \E c \in Callers : CallHistoryGetItem(c)
  \/ \E c \in Callers : CallHistorySetItem(c)
  \/ \E c \in Callers : CallGetHealthHistory(c)
  \/ \E c \in Callers : CallSaveServerStatus(c)
  \/ \E c \in Callers : CallHandleNotifications(c)

SpecOverlap == InitOverlap /\ [][NextOverlap]_vars

----------------------------------------------------------------------------
(* SSHService: the connection Map, connectToServer, disconnectFromServer,  *)
(* executeCommand and executeCommands, await by await.  Two callers, whose *)
(* calls may overlap; a caller starts a call when its last one has ended.  *)

\* SSHService calls started, over both callers
MaxSshCalls == 3

\* the commands of the longest list given to executeCommands
AllCommands == <<"uptime", "df", "free">>

\* the lists given to executeCommands: [], and the prefixes of AllCommands
CommandLists == {SubSeq(AllCommands, 1, n) : n \in 0..Len(AllCommands)}

\* the ConnectionState objects the service sets into the Map; a field that is
\* left out, or undefined, is null
Connecting(id) ==
  [serverId |-> id, status |-> "connecting", client |-> null,
   connectedAt |-> null, lastError |-> null]

Connected(id, client, at) ==
  [serverId |-> id, status |-> "connected", client |-> client,
   connectedAt |-> Some(at), lastError |-> null]

Failed(id, errorMessage) ==
  [serverId |-> id, status |-> "error", client |-> null,
   connectedAt |-> null, lastError |-> Some(errorMessage)]

Disconnected(id) ==
  [serverId |-> id, status |-> "disconnected", client |-> null,
   connectedAt |-> null, lastError |-> null]

\* the client object the library resolves with: the number-th it has created
Client(number) == [number |-> number]

\* this.connections.set(serverId, state)
updateConnectionState(m, serverId, state) == [m EXCEPT ![serverId] = state]

\* what the await in connectToServer ends with: the library connects, the
\* library rejects, the timeout wins the race, or _createConnection throws
\* because the credentials lack the password
ConnectOutcomes == {"connected", "refused", "timed out", "no password"}

\* what the await in executeCommand ends with: output, no output, a rejection
\* of client.execute, or the timeout
ExecuteOutcomes == {"output", "no output", "rejected", "timed out"}

\* what client.disconnect() does
DisconnectOutcomes == {"closed", "throws"}

\* the message of the error each failing outcome of a connection carries
ErrorOf(outcome) ==
  CASE outcome = "refused"     -> "Connection refused"
    [] outcome = "timed out"   -> "Connection to host:22 timed out"
    [] outcome = "no password" -> "Password is required for password authentication"

\* the message of the error each failing outcome of a command carries
CommandErrorOf(outcome) ==
  CASE outcome = "rejected"  -> "exit status 1"
    [] outcome = "timed out" -> "Command execution timed out: uptime"

\* the words _parseError looks for that each of these messages includes
Includes(message, word) ==
  CASE message = "Connection refused" -> word = "refused"
    [] message = "Connection to host:22 timed out" -> word = "timed out"
    [] message = "Command execution timed out: uptime" -> word = "timed out"
    [] message = "Password is required for password authentication" ->
         word = "authentication"
    [] OTHER -> FALSE

\* _parseError on an Error with that message: the first matching word decides,
\* no match returns the message itself
_parseError(message) ==
  IF Includes(message, "timeout") \/ Includes(message, "timed out")
  THEN "Connection timed out. Please check your network and server address."
  ELSE IF Includes(message, "authentication") \/ Includes(message, "auth fail")
  THEN "Authentication failed. Please check your username and password/key."
  ELSE IF Includes(message, "host key") \/ Includes(message, "hostkey")
  THEN "Host key verification failed. The server identity could not be verified."
  ELSE IF Includes(message, "refused") \/ Includes(message, "ECONNREFUSED")
  THEN "Connection refused. The server may be down or SSH is not enabled."
  ELSE message

\* a variant that connects again although the server is connected
alreadyConnected_Never(existingConnection) == FALSE

\* existingConnection?.status === 'connected'
alreadyConnected(existingConnection) ==
  IF existingConnection = null THEN FALSE
  ELSE existingConnection.status = "connected"

\* a variant that leaves the state when the connection fails
connectSettled_LeavesConnecting(id, outcome, client, at) ==
  IF outcome = "connected" THEN Connected(id, client, at) ELSE Connecting(id)

\* the state connectToServer sets after its await
connectSettled(id, outcome, client, at) ==
  IF outcome = "connected"
  THEN Connected(id, client, at)
  ELSE Failed(id, _parseError(ErrorOf(outcome)))

\* !(!connection || connection.status === 'disconnected')
needsDisconnect(connection) ==
  IF connection = null THEN FALSE ELSE connection.status # "disconnected"

\* a variant without the finally: a throwing disconnect leaves the state
afterDisconnect_OnlyWhenClosed(connection, serverId, outcome) ==
  IF outcome = "throws" THEN connection ELSE Disconnected(serverId)

\* the state disconnectFromServer sets in its finally block
afterDisconnect(connection, serverId, outcome) == Disconnected(serverId)

\* a variant that asks for an entry only
isUsable_AnyEntry(connection) == connection # null

\* !(!connection || connection.status !== 'connected' || !connection.client)
isUsable(connection) ==
  IF connection = null THEN FALSE
  ELSE connection.status = "connected" /\ connection.client # null

\* the CommandResult executeCommand returns
CommandResult(outcome, at) ==
  IF outcome \in {"output", "no output"}
  THEN [success |-> TRUE,
        output |-> IF outcome = "output" THEN "output" ELSE "",
        error |-> null, executedAt |-> at]
  ELSE [success |-> FALSE, output |-> "",
        error |-> Some(_parseError(CommandErrorOf(outcome))),
        executedAt |-> at]

\* a variant that goes on after a failed command
stopsAfter_Never(result) == FALSE

\* if (!result.success) break
stopsAfter(result) == ~result.success

\* the caller has no call in flight
Free(c) ==
  IF sshCalls[c] = null THEN TRUE ELSE sshCalls[c].pc \in {"resolved", "rejected"}

\* the caller's call is of that kind and stands at that await
Stands(c, kind, pc) ==
  IF sshCalls[c] = null THEN FALSE
  ELSE sshCalls[c].kind = kind /\ sshCalls[c].pc = pc

\* a call as it starts: the entry it read, nothing done yet
SshCall(kind, serverId, connection, commands) ==
  [n |-> ops + 1, kind |-> kind, serverId |-> serverId, pc |-> "started",
   connection |-> connection, early |-> FALSE, client |-> null,
   commands |-> commands, i |-> 1, results |-> <<>>, error |-> null]

\* a call starts: the clock has moved on
SshStart ==
  /\ ops < MaxSshCalls
  /\ ops' = ops + 1
  /\ now' = now + 1
  /\ UNCHANGED monitoringVars

\* connectToServer up to its await: a connected server returns at once,
\* otherwise the state is set to 'connecting' and the connection is begun
ConnectEnter(c, id) ==
  /\ Free(c)
  /\ SshStart
  /\ LET existingConnection == connections[id]
         call == SshCall("connectToServer", id, existingConnection, <<>>)
     IN  IF alreadyConnected(existingConnection)
         THEN /\ sshCalls' = [sshCalls EXCEPT
                                ![c] = [call EXCEPT !.pc = "resolved", !.early = TRUE]]
              /\ UNCHANGED connections
         ELSE /\ connections' = updateConnectionState(connections, id, Connecting(id))
              /\ sshCalls' = [sshCalls EXCEPT ![c] = [call EXCEPT !.pc = "connecting"]]
  /\ UNCHANGED <<clients, executed>>

\* connectToServer after its await: 'connected' with the new client, or the
\* catch block's 'error' and the rethrown error
ConnectSettle(c, outcome) ==
  /\ Stands(c, "connectToServer", "connecting")
  /\ LET id     == sshCalls[c].serverId
         client == Client(Len(clients) + 1)
     IN  /\ connections' = updateConnectionState(connections, id,
                             connectSettled(id, outcome, client, now))
         /\ clients' = IF outcome = "connected" THEN Append(clients, "open")
                       ELSE clients
         /\ sshCalls' = [sshCalls EXCEPT ![c] =
              IF outcome = "connected"
              THEN [sshCalls[c] EXCEPT !.pc = "resolved", !.client = client]
              ELSE [sshCalls[c] EXCEPT !.pc = "rejected",
                                       !.error = Some(_parseError(ErrorOf(outcome)))]]
  /\ UNCHANGED <<executed, now, ops>>
  /\ UNCHANGED monitoringVars

\* disconnectFromServer up to its await: no entry, or a 'disconnected' one,
\* returns at once; an entry without a client goes to the finally block with
\* no await; otherwise client.disconnect() is called
DisconnectEnter(c, id) ==
  /\ Free(c)
  /\ SshStart
  /\ LET connection == connections[id]
         call == SshCall("disconnectFromServer", id, connection, <<>>)
     IN  IF ~needsDisconnect(connection)
         THEN /\ sshCalls' = [sshCalls EXCEPT
                                ![c] = [call EXCEPT !.pc = "resolved", !.early = TRUE]]
              /\ UNCHANGED connections
         ELSE IF connection.client = null
         THEN /\ connections' = updateConnectionState(connections, id,
                                  afterDisconnect(connection, id, "closed"))
              /\ sshCalls' = [sshCalls EXCEPT ![c] = [call EXCEPT !.pc = "resolved"]]
         ELSE /\ sshCalls' = [sshCalls EXCEPT
                                ![c] = [call EXCEPT !.pc = "disconnecting",
                                                    !.client = connection.client]]
              /\ UNCHANGED connections
  /\ UNCHANGED <<clients, executed>>

\* disconnectFromServer after its await: a throw is caught, and the finally
\* block sets the state
DisconnectSettle(c, outcome) ==
  /\ Stands(c, "disconnectFromServer", "disconnecting")
  /\ LET id == sshCalls[c].serverId
     IN  /\ connections' = updateConnectionState(connections, id,
                             afterDisconnect(connections[id], id, outcome))
         /\ clients' = IF outcome = "closed"
                       THEN [clients EXCEPT ![sshCalls[c].client.number] = "closed"]
                       ELSE clients
         /\ sshCalls' = [sshCalls EXCEPT ![c] = [sshCalls[c] EXCEPT !.pc = "resolved"]]
  /\ UNCHANGED <<executed, now, ops>>
  /\ UNCHANGED monitoringVars

\* executeCommand up to its await, for the call's current command: it throws
\* when the entry is not usable, otherwise client.execute(command) is called
Begin(c, call) ==
  LET connection == connections[call.serverId]
  IN  IF ~isUsable(connection)
      THEN /\ sshCalls' = [sshCalls EXCEPT ![c] =
                [call EXCEPT !.pc = "rejected", !.error = Some("Server is not connected")]]
           /\ UNCHANGED executed
      ELSE /\ sshCalls' = [sshCalls EXCEPT ![c] =
                [call EXCEPT !.pc = "executing",
                             !.client = IF connection = null THEN null
                                        ELSE connection.client]]
           /\ executed' = Append(executed,
                [n |-> call.n,
                 client |-> IF connection = null THEN null ELSE connection.client,
                 command |-> call.commands[call.i]])

ExecuteCommandEnter(c, id, command) ==
  /\ Free(c)
  /\ SshStart
  /\ Begin(c, SshCall("executeCommand", id, connections[id], <<command>>))
  /\ UNCHANGED <<connections, clients>>

\* executeCommands up to its first await: no command returns [] at once
ExecuteCommandsEnter(c, id, commands) ==
  /\ Free(c)
  /\ SshStart
  /\ LET call == SshCall("executeCommands", id, connections[id], commands)
     IN  IF commands = <<>>
         THEN /\ sshCalls' = [sshCalls EXCEPT ![c] = [call EXCEPT !.pc = "resolved"]]
              /\ UNCHANGED executed
         ELSE Begin(c, call)
  /\ UNCHANGED <<connections, clients>>

\* executeCommand after its await: the result is returned, the catch block's
\* result included
ExecuteCommandSettle(c, outcome) ==
  /\ Stands(c, "executeCommand", "executing")
  /\ sshCalls' = [sshCalls EXCEPT ![c] =
       [sshCalls[c] EXCEPT !.pc = "resolved",
                           !.results = <<CommandResult(outcome, now)>>]]
  /\ UNCHANGED <<connections, clients, executed, now, ops>>
  /\ UNCHANGED monitoringVars

\* executeCommands after an await: the result is pushed; a failed one ends
\* the loop, as does the last command; otherwise executeCommand is called for
\* the next command
ExecuteCommandsSettle(c, outcome) ==
  /\ Stands(c, "executeCommands", "executing")
  /\ LET call   == sshCalls[c]
         result == CommandResult(outcome, now)
         pushed == [call EXCEPT !.results = Append(call.results, result)]
     IN  IF stopsAfter(result) \/ call.i = Len(call.commands)
         THEN /\ sshCalls' = [sshCalls EXCEPT ![c] = [pushed EXCEPT !.pc = "resolved"]]
              /\ UNCHANGED executed
         ELSE Begin(c, [pushed EXCEPT !.i = call.i + 1])
  /\ UNCHANGED <<connections, clients, now, ops>>
  /\ UNCHANGED monitoringVars

NextSSH ==
  \/ \E c \in Callers, id \in ServerIds : ConnectEnter(c, id)
  \/ \E c \in Callers, outcome \in ConnectOutcomes : ConnectSettle(c, outcome)
  \/ \E c \in Callers, id \in ServerIds : DisconnectEnter(c, id)
  \/ \E c \in Callers, outcome \in DisconnectOutcomes : DisconnectSettle(c, outcome)
  \/ \E c \in Callers, id \in ServerIds : ExecuteCommandEnter(c, id, AllCommands[1])
  \/ \E c \in Callers, outcome \in ExecuteOutcomes : ExecuteCommandSettle(c, outcome)
  \/ \E c \in Callers, id \in ServerIds, commands \in CommandLists :
       ExecuteCommandsEnter(c, id, commands)
  \/ \E c \in Callers, outcome \in ExecuteOutcomes : ExecuteCommandsSettle(c, outcome)

SpecSSH == Init /\ [][NextSSH]_vars

----------------------------------------------------------------------------
(* Properties.                                                             *)

RECURSIVE TrailingFailures(_)
\* how many 'failure' records end the history
TrailingFailures(h) ==
  IF h = <<>> \/ h[Len(h)].status # "failure" THEN 0
  ELSE 1 + TrailingFailures(SubSeq(h, 1, Len(h) - 1))

\* the notifications the sink accepted that carry the target's id
SentFor(log, id) == SelectSeq(log, LAMBDA n : n.data.serverId = id)

\* C1: for every target with a stored status, consecutiveFailures is the
\* number of consecutive probes recorded as 'failure' since the last probe
\* recorded as 'success' (or since there was no status): N after N failures in
\* a row, 0 after a success.
C1_ConsecutiveFailures ==
  \A id \in ServerIds :
    statusStore[id] # null =>
      statusStore[id].consecutiveFailures = TrailingFailures(historyStore[id])

\* two failures in a row after a success: the counter stands at 2
C1_Witness ==
  \E id \in ServerIds :
    /\ statusStore[id] # null
    /\ Len(historyStore[id]) = 3
    /\ historyStore[id][1].status = "success"
    /\ TrailingFailures(historyStore[id]) = 2
    /\ statusStore[id].consecutiveFailures = 2

\* C2: in every step and for every target, at most one notification is
\* emitted; one is emitted only when the target's stored status changes from
\* one status to a different one, and one is emitted whenever it so changes
\* and the target's config asks for that kind of notification; a pass whose
\* new status equals the stored one emits none.
C2_OncePerChange ==
  [][\A id \in ServerIds :
       LET before  == statusStore[id]
           after   == statusStore'[id]
           added   == Len(SentFor(notifications', id)) - Len(SentFor(notifications, id))
           changed == before # null /\ after # null /\ after.status # before.status
           config  == MapGet(healthCheckConfigs, id)
           asked   == /\ config # null
                      /\ IF after.status = "online" THEN config.notifyOnRecovery
                                                    ELSE config.notifyOnFailure
       IN  /\ added \in {0, 1}
           /\ added = 1 => changed
           /\ changed /\ asked => added = 1]_vars

\* a change was notified once, and the next pass, with the same status and a
\* config that asks for failure notifications, has emitted nothing more
C2_Witness ==
  /\ last # null
  /\ last.previousStatus # null
  /\ last.previousStatus.status = "error"
  /\ last.healthStatus.status = "error"
  /\ last.config # null
  /\ last.config.notifyOnFailure
  /\ last.sent = <<>>
  /\ Len(SentFor(notifications, last.serverId)) = 1

\* C3: the step that stores a target's very first status emits no
\* notification, whatever the probe's outcome and the config's flags.
C3_NoneOnFirstStatus ==
  [][\A id \in ServerIds :
       statusStore[id] = null /\ statusStore'[id] # null =>
         notifications' = notifications]_vars

\* a first status that is not online, under a config that asks for both kinds
C3_Witness ==
  /\ last # null
  /\ last.previousStatus = null
  /\ last.healthStatus.status = "error"
  /\ statusStore[last.serverId] = last.healthStatus
  /\ last.config # null
  /\ last.config.notifyOnFailure
  /\ last.config.notifyOnRecovery
  /\ notifications = <<>>

\* C4: when a pass ends, no enabled target of its snapshot whose server is in
\* its server list, and that came after a target already checked, was left
\* without a checkServerHealth call.
C4_LaterTargetsProbed ==
  task.unprobed = {}

\* C5: no call of checkServerHealth rejects, whatever fails inside it.
C5_CheckNeverThrows ==
  last # null => ~last.threw

\* C6: when testConnection resolved with success = false, the record added to
\* the target's history has status 'failure' and an error, and the status
\* stored is not 'online'.
C6_ExplicitFailureIsFailure ==
  (last # null /\ last.outcome = "rejected") =>
    LET h == historyStore[last.serverId]
    IN  /\ h # <<>>
        /\ h[Len(h)].status = "failure"
        /\ h[Len(h)].error # null
        /\ statusStore[last.serverId].status # "online"

\* C7: after k appends for one target its stored history has min(k, 1000)
\* records: the most recent ones appended, in the order of their appending.
C7_HistoryRetention ==
  \A id \in ServerIds :
    LET h == historyStore[id]
        k == Len(appended[id])
    IN  /\ Len(h) = Min(k, HistoryCap)
        /\ \A i \in 1..Len(h) : h[i] = appended[id][k - Len(h) + i]

\* 1001 appends: 1000 records are kept and the first one appended is gone
C7_Witness ==
  /\ Len(appended["s1"]) = HistoryCap + 1
  /\ Len(historyStore["s1"]) = HistoryCap
  /\ historyStore["s1"][1] = appended["s1"][2]
  /\ historyStore["s1"][1] # appended["s1"][1]

\* the records of a history whose timestamp lies in the 24 hours before at
InWindow(history, at) ==
  SelectSeq(history, LAMBDA e : getTime(e.timestamp) > at - DayMs)

\* r is 100 * s / n rounded to the nearest integer, a half upwards
IsRoundHalfUp(r, s, n) ==
  2 * n * r - n <= 200 * s /\ 200 * s < 2 * n * r + n

\* C8: calculateUptime returns 100 when none of the records it considers lies
\* in the window, and otherwise 100 * s / n rounded half-up, n the considered
\* records in the window and s the successes among them.
C8_UptimeRoundHalfUp ==
  uptimeCall # null =>
    LET w == InWindow(uptimeCall.history, uptimeCall.at)
        n == Len(w)
        s == CountIf(w, "success")
    IN  IF n = 0 THEN uptimeCall.value = 100
        ELSE IsRoundHalfUp(uptimeCall.value, s, n)

\* C9: the uptimePercentage of a stored status is the uptime over all the
\* records retained for the target that lie in the 24 hours before the check.
C9_UptimeOverAllRetained ==
  \A id \in ServerIds :
    statusStore[id] # null =>
      statusStore[id].uptimePercentage =
        calculateUptime(historyStore[id], getTime(statusStore[id].lastChecked))

\* C10: a step that changes a target's stored status to a different status
\* that is not 'online', the target having a config, emits exactly one
\* notification, of type 'failure' with the target's id, when the config's
\* notifyOnFailure is set, and none when it is not.
C10_FailureNotification ==
  [][\A id \in ServerIds :
       LET before == statusStore[id]
           after  == statusStore'[id]
           config == MapGet(healthCheckConfigs, id)
           n      == Len(notifications)
       IN  (/\ before # null
            /\ after # null
            /\ after.status # before.status
            /\ after.status # "online"
            /\ config # null) =>
             IF config.notifyOnFailure
             THEN /\ Len(notifications') = n + 1
                  /\ SubSeq(notifications', 1, n) = notifications
                  /\ notifications'[n + 1].data = [serverId |-> id, type |-> "failure"]
             ELSE notifications' = notifications]_vars

\* an online target went to error under a config with notifyOnFailure: the
\* last notification accepted is its failure notification
C10_Witness ==
  /\ last # null
  /\ last.previousStatus # null
  /\ last.previousStatus.status = "online"
  /\ last.healthStatus.status = "error"
  /\ last.config # null
  /\ last.config.notifyOnFailure
  /\ notifications # <<>>
  /\ notifications[Len(notifications)].data =
       [serverId |-> last.serverId, type |-> "failure"]

\* the notifications a step has added to the sink's log
Added(before, after) == SubSeq(after, Len(before) + 1, Len(after))

\* C11: a step that changes a target's stored status from a status that is
\* not 'online' to 'online', the target having a config, emits exactly one
\* notification, of type 'recovery' with the target's id, when the config's
\* notifyOnRecovery is set, and none when it is not; and no step emits both a
\* failure and a recovery notification.
C11_RecoveryNotification ==
  [][/\ \A id \in ServerIds :
          LET before == statusStore[id]
              after  == statusStore'[id]
              config == MapGet(healthCheckConfigs, id)
          IN  (/\ before # null
               /\ after # null
               /\ before.status # "online"
               /\ after.status = "online"
               /\ config # null) =>
                IF config.notifyOnRecovery
                THEN Added(notifications, notifications') =
                       << [title |-> <<"Server", ServerOf(id).name, "is back online">>,
                           body  |-> after.responseTime,
                           data  |-> [serverId |-> id, type |-> "recovery"]] >>
                ELSE notifications' = notifications
      /\ LET added == Added(notifications, notifications')
         IN  ~ \E i, j \in 1..Len(added) :
                 added[i].data.type = "failure" /\ added[j].data.type = "recovery"]_vars

\* a target stored as 'error' was found online under a config with
\* notifyOnRecovery: the last notification accepted is its recovery notification
C11_Witness ==
  /\ last # null
  /\ last.previousStatus # null
  /\ last.previousStatus.status = "error"
  /\ last.healthStatus.status = "online"
  /\ last.config # null
  /\ last.config.notifyOnRecovery
  /\ last.sent # <<>>
  /\ notifications[Len(notifications)].data =
       [serverId |-> last.serverId, type |-> "recovery"]

\* the await named a is done before the one named b in what a call has done
Before(done, a, b) ==
  \A j \in 1..Len(done) : done[j] = b => \E i \in 1..(j - 1) : done[i] = a

C20_NoLostAppend ==
  \A id \in ServerIds :
    Len(appended[id]) < HistoryCap =>
      /\ Len(historyStore[id]) = Len(appended[id])
      /\ \A i \in 1..Len(appended[id]) :
           \E j \in 1..Len(historyStore[id]) : historyStore[id][j] = appended[id][i]

\* C13: a step that removes a target's config from the registry
\* (unscheduleHealthCheck) leaves no stored status for the target.
C13_UnscheduleDeletesStatus ==
  [][\A id \in ServerIds :
       MapHas(healthCheckConfigs, id) /\ ~MapHas(healthCheckConfigs', id) =>
         getServerStatus(statusStore', id, FALSE) = null]_vars

\* the step is a turn of the pass's loop
Turn == task.pc = "loop" /\ (task'.pc = "idle" \/ task'.i = task.i + 1)

\* C14: the turn of an enabled config whose server is not in the pass's
\* server list runs no probe, writes no history record and no status, emits
\* no notification and leaves the registry and its saved snapshot as they
\* are; the loop goes on to the next config of the snapshot, or the pass
\* returns NewData when there is none.
C14_NotFoundSkipped ==
  [][(/\ Turn
      /\ task.configs[task.i].cfg.enabled
      /\ task.configs[task.i].cfg.serverId \notin task.servers) =>
       /\ UNCHANGED <<statusStore, historyStore, appended, notifications, last,
                      healthCheckConfigs, persistedConfigs>>
       /\ IF task.i < Len(task.configs)
          THEN /\ task'.pc = "loop"
               /\ task'.i = task.i + 1
               /\ task'.configs = task.configs
          ELSE task'.result = "NewData"]_vars

\* the first config of the registry is enabled and its server is not in the
\* list: a pass has returned NewData, has left it with no status, no history
\* and its config, and has probed the config after it
C14_Witness ==
  /\ Len(healthCheckConfigs) = 2
  /\ healthCheckConfigs[1].enabled
  /\ healthCheckConfigs[1].serverId \notin servers
  /\ statusStore[healthCheckConfigs[1].serverId] = null
  /\ historyStore[healthCheckConfigs[1].serverId] = <<>>
  /\ task.result = "NewData"
  /\ passes = 1
  /\ last # null
  /\ last.serverId = healthCheckConfigs[2].serverId
  /\ statusStore[last.serverId] # null

\* C15: checkServerHealth is called in a turn of the loop and nowhere else;
\* the turn of a config calls it, once and for that config's target, exactly
\* when the config is enabled and its server is in the pass's server list; no
\* two configs of a snapshot are for the same target, and the pass ends only
\* after the turn of the snapshot's last config.
C15_OncePerDueConfig ==
  [][/\ \A j, k \in DOMAIN task.configs :
          task.configs[j].cfg.serverId = task.configs[k].cfg.serverId => j = k
      /\ IF Turn
         THEN LET config == task.configs[task.i].cfg
                  called == last' # last
              IN  /\ called <=> (config.enabled /\ config.serverId \in task.servers)
                  /\ called => /\ last'.n = Calls + 1
                               /\ last'.serverId = config.serverId
                  /\ task'.pc = "idle" => task.i = Len(task.configs)
         ELSE last' = last]_vars

\* a pass over a disabled config and an enabled one has returned NewData:
\* one call was made, for the enabled one, and the disabled one has no status
C15_Witness ==
  /\ Len(healthCheckConfigs) = 2
  /\ ~healthCheckConfigs[1].enabled
  /\ healthCheckConfigs[2].enabled
  /\ task.result = "NewData"
  /\ passes = 1
  /\ last # null
  /\ last.n = 1
  /\ last.serverId = healthCheckConfigs[2].serverId
  /\ statusStore[healthCheckConfigs[1].serverId] = null
  /\ statusStore[healthCheckConfigs[2].serverId] # null

\* C16: toggleMonitoring for a target that has no config changes neither
\* the registry nor the saved snapshot and creates no config.
C16_ToggleAbsentIsNoOp ==
  [][(/\ op' # null
      /\ op'.name = "toggleMonitoring"
      /\ ~op'.had) =>
       /\ healthCheckConfigs' = healthCheckConfigs
       /\ persistedConfigs' = persistedConfigs
       /\ ~MapHas(healthCheckConfigs', op'.serverId)]_vars

\* toggleMonitoring(id, true) was called for a target with no config while
\* another target has one: the registry still holds that one config only
C16_Witness ==
  /\ op # null
  /\ op.name = "toggleMonitoring"
  /\ ~op.had
  /\ op.arg = TRUE
  /\ Len(healthCheckConfigs) = 1
  /\ healthCheckConfigs[1].serverId # op.serverId
  /\ persistedConfigs = healthCheckConfigs

\* C18: the registry never holds two configs for one serverId, and after
\* scheduleHealthCheck(config) the config the registry holds for
\* config.serverId is that config.
C18_OneConfigPerServer ==
  /\ \A j, k \in DOMAIN healthCheckConfigs :
       healthCheckConfigs[j].serverId = healthCheckConfigs[k].serverId => j = k
  /\ (op # null /\ op.name = "scheduleHealthCheck") =>
       MapGet(healthCheckConfigs, op.serverId) = op.arg

\* scheduleHealthCheck was called for a target that had another config: the
\* registry holds the new one and nothing else
C18_Witness ==
  /\ op # null
  /\ op.name = "scheduleHealthCheck"
  /\ op.had
  /\ op.previous # op.arg
  /\ healthCheckConfigs = <<op.arg>>
  /\ persistedConfigs = healthCheckConfigs

\* C19: after scheduleHealthCheck, unscheduleHealthCheck, or toggleMonitoring
\* for a target that has a config, when the write of the configs did not
\* fail, the saved snapshot is the registry: the same configs in its order.
C19_SnapshotIsRegistry ==
  (/\ op # null
   /\ ~op.fails
   /\ op.name = "toggleMonitoring" => op.had) =>
     persistedConfigs = healthCheckConfigs

\* a config was removed while another stays: the snapshot holds the one left
C19_Witness ==
  /\ op # null
  /\ op.name = "unscheduleHealthCheck"
  /\ op.had
  /\ ~op.fails
  /\ Len(healthCheckConfigs) = 1
  /\ ~healthCheckConfigs[1].enabled
  /\ persistedConfigs = healthCheckConfigs

\* C17: getHealthHistory(id, limit), when the read does not fail, returns the
\* last min(limit, k) of the k stored records, in their stored order: the
\* empty sequence when nothing is stored.
C17_HistoryLastLimit ==
  (historyCall # null /\ ~historyCall.fails) =>
    LET k == Len(historyCall.stored)
        n == Min(historyCall.limit, k)
    IN  historyCall.result = SubSeq(historyCall.stored, k - n + 1, k)

\* the step is a call of checkServerHealth
Called == last' # last

\* the pass goes on after the turn: to its next config, or to return NewData
GoesOn ==
  /\ task'.unprobed = {}
  /\ IF task.i < Len(task.configs)
     THEN task'.pc = "loop" /\ task'.i = task.i + 1
     ELSE task'.result = "NewData"

C22_OtherTargetsUntouched ==
  [][/\ \A a, b \in ServerIds :
          /\ statusKey(a) = statusKey(b) => a = b
          /\ historyKey(a) = historyKey(b) => a = b
          /\ statusKey(a) # historyKey(b)
          /\ configsKey \notin {statusKey(a), historyKey(a)}
      /\ Called =>
          /\ \A id \in ServerIds \ {last'.serverId} :
               /\ statusStore'[id] = statusStore[id]
               /\ historyStore'[id] = historyStore[id]
          /\ healthCheckConfigs' = healthCheckConfigs
          /\ persistedConfigs' = persistedConfigs]_vars

\* the last call was for s2 and has stored its status and record, while s1
\* keeps a different status and its own history from an earlier call
C22_Witness ==
  /\ last # null
  /\ last.serverId = "s2"
  /\ statusStore["s2"] = last.healthStatus
  /\ statusStore["s1"] # null
  /\ statusStore["s1"].status # statusStore["s2"].status
  /\ Len(historyStore["s1"]) = 2
  /\ Len(historyStore["s2"]) = 1

\* the statuses a probe may give
ProbedStatuses == {"online", "offline", "error"}

\* C23: every stored status is online, offline or error, never unknown, and
\* whatever status is stored for a target, the next check of the target can
\* store each of the three.
C23_AnyOfThreeFollows ==
  \A id \in ServerIds :
    statusStore[id] # null =>
      /\ statusStore[id].status \in ProbedStatuses
      /\ \A st \in ProbedStatuses :
           \E outcome \in ProbeOutcomes, lat \in Latencies :
             checkServerHealth(id, ServerOf(id), now, outcome, lat, NoFaults)
               .healthStatus.status = st

\* C24: every history record appended by checkServerHealth is a 'success'
\* with a responseTime and no error, or a 'failure' with an error and no
\* responseTime.
C24_RecordFields ==
  \A id \in ServerIds :
    \A i \in 1..Len(appended[id]) :
      LET entry == appended[id][i]
      IN  /\ entry.status \in {"success", "failure"}
          /\ entry.responseTime # null <=> entry.status = "success"
          /\ entry.error # null <=> entry.status = "failure"

\* a stored history with a success, which has a responseTime, and then a
\* failure, which has an error
C24_Witness ==
  \E id \in ServerIds :
    /\ Len(historyStore[id]) = 2
    /\ historyStore[id] = appended[id]
    /\ historyStore[id][1].status = "success"
    /\ historyStore[id][1].responseTime # null
    /\ historyStore[id][2].status = "failure"
    /\ historyStore[id][2].error # null

\* C25: every value calculateUptime returns, and every uptimePercentage of a
\* stored status, is an integer from 0 to 100.
C25_UptimeRange ==
  /\ uptimeCall # null => uptimeCall.value \in 0..100
  /\ \A id \in ServerIds :
       statusStore[id] # null => statusStore[id].uptimePercentage \in 0..100

\* a check on a history of successes and failures has stored an uptime that is
\* neither 0 nor 100
C25_Witness ==
  /\ last # null
  /\ statusStore[last.serverId] = last.healthStatus
  /\ uptimeCall # null
  /\ uptimeCall.value = last.healthStatus.uptimePercentage
  /\ Len(uptimeCall.history) > 30
  /\ uptimeCall.value \in 1..99

\* C27: when the append and the read of the history did not fail, the
\* uptimePercentage of the status a check assembles counts the record the check
\* appended: below 100 after a failed probe, above 0 after a successful one,
\* and 100 after a successful first check of the target.
C27_UptimeCountsOwnRecord ==
  (last # null /\ ~last.faults.histAppend /\ ~last.faults.histRead) =>
    LET uptime == last.healthStatus.uptimePercentage
    IN  /\ last.entry.status = "failure" => uptime < 100
        /\ last.entry.status = "success" => uptime > 0
        /\ (last.entry.status = "success" /\ Len(appended[last.serverId]) = 1) =>
             uptime = 100

\* a probe failed on a history of successes only: the uptime stored is below
\* 100, and above 0
C27_Witness ==
  /\ last # null
  /\ ~last.faults.histAppend
  /\ ~last.faults.histRead
  /\ last.entry.status = "failure"
  /\ Len(historyStore[last.serverId]) > 30
  /\ \A i \in 1..(Len(historyStore[last.serverId]) - 1) :
       historyStore[last.serverId][i].status = "success"
  /\ historyStore[last.serverId][Len(historyStore[last.serverId])] = last.entry
  /\ last.healthStatus.uptimePercentage \in 90..99

\* C29: in every status checkServerHealth assembles, and in every status
\* stored, status is 'online' exactly when consecutiveFailures is 0,
\* responseTime is non-null exactly when status is 'online', and errorMessage
\* is non-null exactly when status is not 'online'.
C29_StatusFieldsAgree ==
  \A h \in {statusStore[id] : id \in ServerIds}
           \cup (IF last = null THEN {} ELSE {last.healthStatus}) :
    h # null =>
      /\ h.consecutiveFailures >= 0
      /\ h.status = "online" <=> h.consecutiveFailures = 0
      /\ h.responseTime # null <=> h.status = "online"
      /\ h.errorMessage # null <=> h.status # "online"

\* a second failure in a row is stored: two consecutive failures, an error
\* message and no response time
C29_Witness ==
  /\ last # null
  /\ last.previousStatus # null
  /\ last.previousStatus.status = "error"
  /\ statusStore[last.serverId] = last.healthStatus
  /\ last.healthStatus.status = "error"
  /\ last.healthStatus.consecutiveFailures = 2
  /\ last.healthStatus.responseTime = null
  /\ last.healthStatus.errorMessage # null

\* C30: the lastOnline of the status a check writes is the time of the check
\* when the probe was online, and otherwise the lastOnline of the status stored
\* before (null when there was none); the lastOnline of a stored status is
\* null exactly when no check of the target has been online.
C30_LastOnline ==
  [][/\ Called =>
          LET h    == last'.healthStatus
              prev == statusStore[last'.serverId]
          IN  /\ statusStore'[last'.serverId] = h
              /\ h.lastOnline = IF h.status = "online" THEN toISOString(now')
                                ELSE IF prev = null THEN null
                                ELSE prev.lastOnline
              /\ h.status = "online" => h.lastOnline = h.lastChecked
      /\ \A id \in ServerIds :
           statusStore'[id] # null =>
             (statusStore'[id].lastOnline = null
                <=> CountIf(appended'[id], "success") = 0)]_vars

\* a target that was online is stored as 'error': its lastOnline is the one of
\* the status before, earlier than its lastChecked
C30_Witness ==
  /\ last # null
  /\ last.previousStatus # null
  /\ statusStore[last.serverId] = last.healthStatus
  /\ last.healthStatus.status = "error"
  /\ last.healthStatus.lastOnline # null
  /\ last.healthStatus.lastOnline = last.previousStatus.lastOnline
  /\ getTime(last.healthStatus.lastOnline) < getTime(last.healthStatus.lastChecked)

\* C28: when two calls for one target have read the same stored status and
\* have assembled the same new status, different from it, they have emitted
\* at most one notification between them.
C28_OneNotificationPerChange ==
  \A c, d \in Callers :
    (/\ c # d
     /\ calls[c] # null
     /\ calls[d] # null
     /\ calls[c].pc = "returned"
     /\ calls[d].pc = "returned"
     /\ calls[c].serverId = calls[d].serverId
     /\ calls[c].previousStatus # null
     /\ calls[c].previousStatus = calls[d].previousStatus
     /\ calls[c].healthStatus.status = calls[d].healthStatus.status
     /\ calls[c].healthStatus.status # calls[c].previousStatus.status) =>
       Len(calls[c].sent) + Len(calls[d].sent) <= 1

----------------------------------------------------------------------------
(* The registry and the task over the life of the app.                     *)

\* C31: in a new process in which unscheduleHealthCheck is never called, no
\* config leaves the saved snapshot, whatever the order of initialize,
\* scheduleHealthCheck and toggleMonitoring (a scheduleHealthCheck before
\* initialize included).
C31_PersistedUntilUnscheduled ==
  [][\A id \in ServerIds :
       MapHas(persistedConfigs, id) => MapHas(persistedConfigs', id)]_vars

\* C32: a check writes a status and a history record only for a target that
\* has a config in the registry: once unscheduleHealthCheck has removed it,
\* nothing is written for the target, whatever pass is in progress.
C32_NoWriteAfterUnschedule ==
  [][Called => MapHas(healthCheckConfigs, last'.serverId)]_vars

\* the target's config in m is enabled
EnabledIn(m, id) == MapHas(m, id) /\ MapGet(m, id).enabled

\* C33: when scheduleHealthCheck or toggleMonitoring makes a config enabled,
\* the background task is registered afterwards.
C33_EnabledIsRegistered ==
  [][\A id \in ServerIds :
       (/\ op' # null
        /\ ops' # ops
        /\ op'.name \in {"scheduleHealthCheck", "toggleMonitoring"}
        /\ op'.serverId = id
        /\ EnabledIn(healthCheckConfigs', id)
        /\ ~EnabledIn(healthCheckConfigs, id)) => registered']_vars

----------------------------------------------------------------------------
(* SSHService.                                                             *)

\* the caller's call of that kind ends in this step
Completes(c, kind) ==
  /\ sshCalls'[c] # null
  /\ IF sshCalls[c] = null THEN TRUE
     ELSE sshCalls[c].n # sshCalls'[c].n \/ sshCalls[c].pc # sshCalls'[c].pc
  /\ sshCalls'[c].kind = kind
  /\ sshCalls'[c].pc \in {"resolved", "rejected"}

\* C34: a disconnectFromServer call that found an entry other than
\* 'disconnected' ends resolved, with the entry 'disconnected' and its client
\* null, whether client.disconnect() closed the client or threw.
C34_DisconnectAlwaysDisconnects ==
  [][\A c \in Callers :
       (Completes(c, "disconnectFromServer")
          /\ needsDisconnect(sshCalls'[c].connection)) =>
         /\ sshCalls'[c].pc = "resolved"
         /\ connections'[sshCalls'[c].serverId] # null
         /\ connections'[sshCalls'[c].serverId].status = "disconnected"
         /\ connections'[sshCalls'[c].serverId].client = null]_vars

\* a call for a connected server has ended although client.disconnect() threw:
\* the client is still open, the entry is 'disconnected'
C34_Witness ==
  \E c \in Callers :
    /\ Stands(c, "disconnectFromServer", "resolved")
    /\ sshCalls[c].connection # null
    /\ sshCalls[c].connection.status = "connected"
    /\ sshCalls[c].client # null
    /\ clients[sshCalls[c].client.number] = "open"
    /\ connections[sshCalls[c].serverId] = Disconnected(sshCalls[c].serverId)

\* C35: a connectToServer call that ends leaves the entry 'connected' with a
\* client and resolves, or leaves it 'error' with a null client and lastError
\* set and rejects; it never leaves 'connecting'.
C35_ConnectLeavesConnectedOrError ==
  [][\A c \in Callers :
       Completes(c, "connectToServer") =>
         LET entry == connections'[sshCalls'[c].serverId]
         IN  /\ entry # null
             /\ \/ /\ sshCalls'[c].pc = "resolved"
                   /\ entry.status = "connected"
                   /\ entry.client # null
                \/ /\ sshCalls'[c].pc = "rejected"
                   /\ entry.status = "error"
                   /\ entry.client = null
                   /\ entry.lastError # null
                   /\ sshCalls'[c].error = entry.lastError]_vars

\* a call has rejected after its connection timed out: the entry is 'error'
\* with the parsed message
C35_Witness ==
  \E c \in Callers :
    /\ Stands(c, "connectToServer", "rejected")
    /\ connections[sshCalls[c].serverId] =
         Failed(sshCalls[c].serverId,
                "Connection timed out. Please check your network and server address.")

\* C36: a connectToServer call that sets a new client into the Map replaces no
\* client that is still open: calls for one server that overlap create at most
\* one client between them.
C36_NoOpenClientOverwritten ==
  [][\A c \in Callers :
       (Completes(c, "connectToServer") /\ sshCalls'[c].client # null) =>
         LET before == connections[sshCalls'[c].serverId]
         IN  IF before = null THEN TRUE
             ELSE IF before.client = null THEN TRUE
             ELSE clients[before.client.number] # "open"]_vars

\* the caller's call of that kind starts in this step
Starts(c, kind) ==
  /\ sshCalls'[c] # null
  /\ IF sshCalls[c] = null THEN TRUE ELSE sshCalls[c].n # sshCalls'[c].n
  /\ sshCalls'[c].kind = kind

\* C37: connectToServer for a server whose entry is 'connected' resolves at
\* once, creates no client and leaves the entry (status, client, connectedAt)
\* as it was.
C37_AlreadyConnectedIsNoOp ==
  [][\A c \in Callers :
       (Starts(c, "connectToServer")
          /\ connections[sshCalls'[c].serverId] # null
          /\ connections[sshCalls'[c].serverId].status = "connected") =>
         /\ sshCalls'[c].pc = "resolved"
         /\ connections'[sshCalls'[c].serverId] = connections[sshCalls'[c].serverId]
         /\ clients' = clients]_vars

\* a call for a server connected earlier has returned: the entry holds the
\* client and the connectedAt of the earlier call
C37_Witness ==
  \E c \in Callers :
    /\ Stands(c, "connectToServer", "resolved")
    /\ sshCalls[c].early
    /\ sshCalls[c].client = null
    /\ connections[sshCalls[c].serverId] = sshCalls[c].connection
    /\ connections[sshCalls[c].serverId].status = "connected"
    /\ connections[sshCalls[c].serverId].client = Client(1)
    /\ connections[sshCalls[c].serverId].connectedAt[1] < now
    /\ Len(clients) = 1

\* the commands the call with that number has had executed, in order
ExecutedBy(log, n) == SelectSeq(log, LAMBDA e : e.n = n)

\* C38: the results executeCommands returns are those of a prefix of the
\* commands, executed in order and nothing else; every result but the last has
\* success = true; the prefix is the whole list unless its last result failed.
C38_StopsAfterFirstFailure ==
  [][\A c \in Callers :
       (Completes(c, "executeCommands") /\ sshCalls'[c].pc = "resolved") =>
         LET call == sshCalls'[c]
             mine == ExecutedBy(executed', call.n)
             size == Len(call.results)
         IN  /\ size <= Len(call.commands)
             /\ Len(mine) = size
             /\ \A k \in 1..size : mine[k].command = call.commands[k]
             /\ \A k \in 1..(size - 1) : call.results[k].success
             /\ \/ size = Len(call.commands)
                \/ ~call.results[size].success]_vars

\* a call with three commands has returned two results, the second a failure:
\* the third command was not executed
C38_Witness ==
  \E c \in Callers :
    /\ Stands(c, "executeCommands", "resolved")
    /\ sshCalls[c].commands = AllCommands
    /\ Len(sshCalls[c].results) = 2
    /\ sshCalls[c].results[1].success
    /\ ~sshCalls[c].results[2].success
    /\ Len(ExecutedBy(executed, sshCalls[c].n)) = 2

\* C39: executeCommand rejects, with no client.execute invocation, when the
\* entry is absent, not 'connected' or without a client; otherwise it invokes
\* the client once and resolves with a result, success = false with the error
\* when the command failed or timed out; no step of it changes the Map.
C39_ExecuteCommandThrowsOnlyUnconnected ==
  [][\A c \in Callers :
       /\ Starts(c, "executeCommand") =>
            LET entry == connections[sshCalls'[c].serverId]
                connected == IF entry = null THEN FALSE
                             ELSE entry.status = "connected" /\ entry.client # null
            IN  /\ connections' = connections
                /\ IF connected
                   THEN /\ sshCalls'[c].pc = "executing"
                        /\ executed' = Append(executed,
                             [n |-> sshCalls'[c].n, client |-> entry.client,
                              command |-> sshCalls'[c].commands[1]])
                   ELSE /\ sshCalls'[c].pc = "rejected"
                        /\ sshCalls'[c].error # null
                        /\ executed' = executed
       /\ (Completes(c, "executeCommand") /\ ~Starts(c, "executeCommand")) =>
            /\ sshCalls'[c].pc = "resolved"
            /\ connections' = connections
            /\ executed' = executed
            /\ Len(sshCalls'[c].results) = 1
            /\ sshCalls'[c].results[1].success
                 <=> sshCalls'[c].results[1].error = null
            /\ ~sshCalls'[c].results[1].success
                 => sshCalls'[c].results[1].output = ""]_vars

\* a command on a connected server has timed out: the call has resolved with
\* success = false and the entry is still 'connected' with its client
C39_Witness ==
  \E c \in Callers :
    /\ Stands(c, "executeCommand", "resolved")
    /\ ~sshCalls[c].results[1].success
    /\ sshCalls[c].results[1].error =
         Some("Connection timed out. Please check your network and server address.")
    /\ connections[sshCalls[c].serverId] # null
    /\ connections[sshCalls[c].serverId].status = "connected"
    /\ connections[sshCalls[c].serverId].client = sshCalls[c].client
    /\ Len(ExecutedBy(executed, sshCalls[c].n)) = 1

====
